---- MODULE Spec2Model ----
(***************************************************************************)
(* Model of commute.py (S-Tog commute helper).                             *)
(*                                                                         *)
(* Four parts of the program are modelled, each with its own               *)
(* specification over the same variables:                                  *)
(*   Spec        the browser client embedded in MAP_HTML (pin-drop         *)
(*               session, fetchRoutes, renderTrips, selectTrip);           *)
(*   SpecServer  the local map server (RequestHandler.do_GET,               *)
(*               _handle_trips, RejseplanenREST.search_trips/_get);         *)
(*   SpecTrips   the per-trip loops of display_trips and process_trips;    *)
(*   SpecDelay   format_delay.                                             *)
(* A specification leaves the variables of the other parts at their idle   *)
(* values.                                                                 *)
(***************************************************************************)
EXTENDS Integers, Sequences, FiniteSets, TLC

VARIABLES
    \* ---- browser client (MAP_HTML script) ----
    originMarker,   \* position of the origin marker, NoMarker when null
    destMarker,     \* position of the destination marker, NoMarker when null
    tripLayers,     \* sequence (one per drawn trip) of sequences of layers
    trips,          \* the `trips` variable of the page
    selectedIndex,  \* index of the selected trip
    fetching,       \* the `fetching` flag
    mapLayers,      \* polylines currently added to the Leaflet map
    listEl,         \* content of #trip-list
    header,         \* text of #header
    pending,        \* requests to /api/trips sent and not yet settled
    lastEvent,      \* the event handled by the last step
    \* ---- map server ----
    serverUp,       \* the server process is running
    exitCode,       \* exit status of the process once it has stopped
    inUrlopen,      \* the handler of lastRequest waits for the upstream
    lastRequest,    \* the request handled by the last step
    lastResponse,   \* the response written for it
    upstreamLog,    \* upstream calls made while handling the last request
    \* ---- trip pipelines ----
    raw_trips,      \* the trips returned by search_trips
    tableOut,       \* outcome of the display_trips loop
    mapOut,         \* outcome of process_trips
    \* ---- format_delay ----
    scheduled, realtime, delayOut

clientVars == <<originMarker, destMarker, tripLayers, trips, selectedIndex,
                fetching, mapLayers, listEl, header, pending, lastEvent>>
serverVars == <<serverUp, exitCode, inUrlopen, lastRequest, lastResponse,
                upstreamLog>>
tripVars   == <<raw_trips, tableOut, mapOut>>
delayVars  == <<scheduled, realtime, delayOut>>
vars == <<clientVars, serverVars, tripVars, delayVars>>

(***************************************************************************)
(* Bounds                                                                  *)
(***************************************************************************)
MaxPoint == 2
MaxInFlight == 2
MaxTrips == 1
MaxLegs == 1

(***************************************************************************)
(*                        BROWSER CLIENT                                   *)
(***************************************************************************)
NoMarker == 0
Points == 1..MaxPoint

\* A value of the page's `trips` variable: a JSON array of trips, or the
\* JSON object {"error": ...} of a 400/500 body (which has no length).
\* req is the request the value answers (NoReq for the [] of clearRoutes).
NoReq == [o |-> NoMarker, d |-> NoMarker]
EmptyTrips == [isArray |-> TRUE, items |-> <<>>, req |-> NoReq]

\* The trip arrays the server can send: the index field equals the position
\* (process_trips: "index": len(trips_data)); legs is the number of legs.
TripArrays ==
    UNION { { s \in [1..n -> [index : 0..(MaxTrips - 1), legs : 1..MaxLegs]] :
                \A i \in 1..n : s[i].index = i - 1 } : n \in 0..MaxTrips }

\* What a fetch() promise chain can see: a JSON array, a JSON error object,
\* or a rejection (network failure, body that is not JSON).
Responses ==
    { [kind |-> "array", items |-> a] : a \in TripArrays }
      \cup { [kind |-> "errorBody", items |-> <<>>],
             [kind |-> "failure", items |-> <<>>] }

RECURSIVE FlattenLayers(_)
FlattenLayers(tl) ==
    IF tl = <<>> THEN {}
    ELSE { Head(tl)[i] : i \in 1..Len(Head(tl)) } \cup FlattenLayers(Tail(tl))

LayerIds(S) == { l.id : l \in S }

\* A layer object not on the map yet (ids of removed layers are reused: no
\* reference to a removed layer survives clearRoutes).
FreshId(used) ==
    CHOOSE n \in 1..(Cardinality(used) + 1) :
        n \notin used /\ \A m \in 1..(n - 1) : m \in used

\* trip.legs.forEach(... L.polyline(...).addTo(map); layers.push(pl) ...)
RECURSIVE DrawLegs(_, _, _)
DrawLegs(nlegs, tripIndex, used) ==
    IF nlegs = 0 THEN <<>>
    ELSE LET id == FreshId(used)
         IN  <<[id |-> id, tripIndex |-> tripIndex]>>
               \o DrawLegs(nlegs - 1, tripIndex, used \cup {id})

\* trips.forEach(function(trip) {... tripLayers.push(layers); })
RECURSIVE DrawTrips(_, _)
DrawTrips(items, used) ==
    IF items = <<>> THEN <<>>
    ELSE LET layers == DrawLegs(Head(items).legs, Head(items).index, used)
         IN  <<layers>> \o
             DrawTrips(Tail(items),
                       used \cup { layers[i].id : i \in 1..Len(layers) })

Instructions == [kind |-> "instructions", cards |-> 0]

\* MapSession of the page: Empty, OriginSet or BothSet.
SessionState ==
    IF originMarker = NoMarker THEN "Empty"
    ELSE IF destMarker = NoMarker THEN "OriginSet" ELSE "BothSet"

\* The event a step handles, with the page as the event found it.
Event(type, p) ==
    [type |-> type, p |-> p, from |-> SessionState,
     fetchingBefore |-> fetching, inFlightBefore |-> Len(pending),
     routesBefore |-> (mapLayers # {})]

\* Mutation of ClearedMap: the layers stay on the map.
ClearedMap_KeepsLayers(ml, tl) == ml

\* clearRoutes(): every layer of tripLayers is removed from the map.
ClearedMap(ml, tl) == ml \ FlattenLayers(tl)

\* Mutation of FetchUrl: the origin's coordinates are sent for both ends.
FetchUrl_OriginTwice(om, dm) == [o |-> om, d |-> om]

\* The request fetchRoutes sends: /api/trips?olat=o.lat&olon=o.lng&dlat=...
FetchUrl(om, dm) == [o |-> om, d |-> dm]

InitClient ==
    /\ originMarker = NoMarker
    /\ destMarker = NoMarker
    /\ tripLayers = <<>>
    /\ trips = EmptyTrips
    /\ selectedIndex = 0
    /\ fetching = FALSE
    /\ mapLayers = {}
    /\ listEl = Instructions
    /\ header = "Drop pins to plan a route"
    /\ pending = <<>>
    /\ lastEvent = [type |-> "load", p |-> NoMarker, from |-> "Empty",
                    fetchingBefore |-> FALSE, inFlightBefore |-> 0,
                    routesBefore |-> FALSE]

\* fetchRoutes(), called with the markers as the calling handler left them.
FetchStarts(om, dm) == om # NoMarker /\ dm # NoMarker

FetchRoutes(om, dm) ==
    IF ~FetchStarts(om, dm)
    THEN UNCHANGED <<fetching, tripLayers, trips, mapLayers, listEl, header,
                     pending>>
    ELSE /\ fetching' = TRUE
         \* clearRoutes()
         /\ mapLayers' = ClearedMap(mapLayers, tripLayers)
         /\ tripLayers' = <<>>
         /\ trips' = EmptyTrips
         /\ listEl' = [kind |-> "loading", cards |-> 0]
         /\ header' = "Searching..."
         /\ pending' = Append(pending, FetchUrl(om, dm))

\* map.on('click', ...)
MapClick(p) ==
    /\ lastEvent' = Event("click", p)
    /\ IF fetching
       THEN UNCHANGED <<originMarker, destMarker, tripLayers, trips,
                        selectedIndex, fetching, mapLayers, listEl, header,
                        pending>>
       ELSE IF originMarker = NoMarker
       THEN /\ originMarker' = p
            /\ UNCHANGED <<destMarker, tripLayers, trips, selectedIndex,
                           fetching, mapLayers, listEl, header, pending>>
       ELSE IF destMarker = NoMarker
       THEN /\ Len(pending) < MaxInFlight
            /\ destMarker' = p
            /\ FetchRoutes(originMarker, p)
            /\ UNCHANGED <<originMarker, selectedIndex>>
       ELSE \* both pins exist: reset, then place a new origin
            /\ destMarker' = NoMarker
            /\ mapLayers' = ClearedMap(mapLayers, tripLayers)
            /\ tripLayers' = <<>>
            /\ trips' = EmptyTrips
            /\ listEl' = Instructions
            /\ header' = "Drop pins to plan a route"
            /\ originMarker' = p
            /\ UNCHANGED <<selectedIndex, fetching, pending>>

\* originMarker.on('dragend', function() { if (destMarker) fetchRoutes(); })
DragOrigin(p) ==
    /\ originMarker # NoMarker
    /\ destMarker # NoMarker => Len(pending) < MaxInFlight
    /\ originMarker' = p
    /\ lastEvent' = Event("dragOrigin", p)
    /\ IF destMarker # NoMarker
       THEN FetchRoutes(p, destMarker)
       ELSE UNCHANGED <<fetching, tripLayers, trips, mapLayers, listEl,
                        header, pending>>
    /\ UNCHANGED <<destMarker, selectedIndex>>

\* destMarker.on('dragend', function() { fetchRoutes(); })
DragDest(p) ==
    /\ destMarker # NoMarker
    /\ Len(pending) < MaxInFlight
    /\ destMarker' = p
    /\ lastEvent' = Event("dragDest", p)
    /\ FetchRoutes(originMarker, p)
    /\ UNCHANGED <<originMarker, selectedIndex>>

\* Mutation of FetchingAfter: the .catch handler leaves the flag set.
FetchingAfter_CatchKeepsFlag(resp) == resp.kind = "failure"

\* `fetching = false`, the first statement of the .then(function(data))
\* handler and of the .catch handler.
FetchingAfter(resp) == FALSE

RemoveAt(s, i) == [j \in 1..(Len(s) - 1) |-> IF j < i THEN s[j] ELSE s[j + 1]]

\* The promise chain of fetchRoutes settles for the i-th outstanding request.
FetchSettles(i, resp) ==
    /\ i \in 1..Len(pending)
    /\ pending' = RemoveAt(pending, i)
    /\ lastEvent' = Event(resp.kind, NoMarker)
    /\ fetching' = FetchingAfter(resp)
    /\ IF resp.kind = "failure"
       THEN \* .catch(function(err) {...})
            /\ listEl' = [kind |-> "error", cards |-> 0]
            /\ header' = "Error"
            /\ UNCHANGED <<trips, tripLayers, mapLayers, selectedIndex>>
       ELSE /\ trips' = [isArray |-> (resp.kind = "array"),
                         items |-> resp.items, req |-> pending[i]]
            /\ IF Len(resp.items) = 0
               THEN \* if (!trips.length) {...; return;}
                    /\ listEl' = [kind |-> "none", cards |-> 0]
                    /\ header' = "No routes found"
                    /\ UNCHANGED <<tripLayers, mapLayers, selectedIndex>>
               ELSE \* renderTrips(), ending in selectTrip(0)
                    LET drawn == DrawTrips(resp.items, LayerIds(mapLayers))
                    IN  /\ tripLayers' = tripLayers \o drawn
                        /\ mapLayers' = mapLayers \cup FlattenLayers(drawn)
                        /\ listEl' = [kind |-> "cards",
                                      cards |-> Len(resp.items)]
                        /\ header' = "routes found"
                        /\ selectedIndex' = 0
    /\ UNCHANGED <<originMarker, destMarker>>

\* selectTrip(index), from a sidebar card (card.onclick) or a drawn leg
\* (pl.on('click')); both pass trip.index.
SelectTrip(index) ==
    /\ \/ listEl.kind = "cards" /\ index \in 0..(listEl.cards - 1)
       \/ \E l \in mapLayers : l.tripIndex = index
    /\ index < Len(tripLayers)
    /\ selectedIndex' = index
    /\ lastEvent' = Event("select", NoMarker)
    /\ UNCHANGED <<originMarker, destMarker, tripLayers, trips, fetching,
                   mapLayers, listEl, header, pending>>

NextClient ==
    \/ \E p \in Points : MapClick(p)
    \/ \E p \in Points : DragOrigin(p)
    \/ \E p \in Points : DragDest(p)
    \/ \E i \in 1..MaxInFlight, resp \in Responses : FetchSettles(i, resp)
    \/ \E index \in 0..(MaxTrips - 1) : SelectTrip(index)

(***************************************************************************)
(*                 format_delay, parse_time, TRIP PIPELINES                *)
(***************************************************************************)
WALK_MINUTES == 7
MAX_STATION_WAIT == 2

\* Strings of the upstream JSON are kept as integers: a key that is absent
\* (so that .get(key, "") gives ""), a string that does not match the
\* strptime format, or the value a well-formed string denotes (a day number
\* for "YYYY-MM-DD", seconds since midnight for "HH:MM:SS").
Missing == -1
Malformed == -2
Truthy(str) == str # Missing

\* A datetime is a number of seconds; None is NoneTime.
NoneTime == -1
DaySeconds == 86400

\* parse_time: datetime.strptime raises ValueError unless both parts match.
ParseRaises(date_str, time_str) == date_str < 0 \/ time_str < 0
parse_time(date_str, time_str) == date_str * DaySeconds + time_str

\* int(x.total_seconds() / 60): int() truncates toward zero.
IntMinutes(secs) == IF secs >= 0 THEN secs \div 60 ELSE -((-secs) \div 60)

\* dt.strftime("%H:%M"), and time_str[:5] of a well-formed "HH:MM:SS": the
\* minute of the day.
HourMinute(secs) == (secs % DaySeconds) \div 60

\* Mutation of format_delay: the 3 minute threshold is exclusive.
format_delay_StrictThreshold(sched, rt) ==
    IF rt = NoneTime
    THEN [color |-> "DIM", label |-> "(no RT)", minutes |-> 0]
    ELSE IF rt - sched <= 0
    THEN [color |-> "GREEN", label |-> "on time", minutes |-> 0]
    ELSE [color |-> IF rt - sched < 3 * 60 THEN "YELLOW" ELSE "RED",
          label |-> "+N min", minutes |-> IntMinutes(rt - sched)]

\* format_delay(scheduled, realtime): the colour and the text of the label.
format_delay(sched, rt) ==
    IF rt = NoneTime
    THEN [color |-> "DIM", label |-> "(no RT)", minutes |-> 0]
    ELSE LET secs == rt - sched   \* diff = secs / 60
         IN  IF secs <= 0
             THEN [color |-> "GREEN", label |-> "on time", minutes |-> 0]
             ELSE IF secs <= 3 * 60
             THEN [color |-> "YELLOW", label |-> "+N min",
                   minutes |-> IntMinutes(secs)]
             ELSE [color |-> "RED", label |-> "+N min",
                   minutes |-> IntMinutes(secs)]

\* ---- raw trips ---------------------------------------------------------
\* A leg end (Origin / Destination) is [date, time, rtDate, rtTime]; a leg is
\* [type, cancelled, Origin, Destination, PolylineGroup, GisRoute] where the
\* last two hold the crd arrays of their polylineDesc entries; a trip is
\* [shape, Leg]: LegList.Leg is absent ("none"), one leg object ("dict") or
\* a list of legs ("list").
SchedOnly(d, t) == [date |-> d, time |-> t, rtDate |-> Missing,
                    rtTime |-> Missing]
WithRT(d, t, rt) == [date |-> d, time |-> t, rtDate |-> d, rtTime |-> rt]
NoTimes == SchedOnly(Missing, Missing)

T0800 == 28800
T0802 == 28920
T0830 == 30600
T0915 == 33300

LegA == [type |-> "JNY", cancelled |-> FALSE,
         Origin |-> SchedOnly(0, T0800), Destination |-> SchedOnly(0, T0830),
         PolylineGroup |-> << <<>>, <<12, 55, 13, 56>> >>, GisRoute |-> <<>>]
LegB == [type |-> "JNY", cancelled |-> TRUE,
         Origin |-> WithRT(0, T0800, T0802),
         Destination |-> SchedOnly(0, T0915),
         PolylineGroup |-> << <<12, 55, 13>> >>, GisRoute |-> <<>>]
LegC == [type |-> "WALK", cancelled |-> FALSE,
         Origin |-> SchedOnly(0, T0830), Destination |-> SchedOnly(0, T0915),
         PolylineGroup |-> <<>>, GisRoute |-> << <<12, 55, 12, 56>> >>]
LegD == [type |-> "JNY", cancelled |-> FALSE,
         Origin |-> WithRT(0, T0802, T0800),
         Destination |-> WithRT(0, T0830, T0830),
         PolylineGroup |-> << <<12>> >>, GisRoute |-> << <<12, 55, 13, 56>> >>]
LegE == [type |-> "JNY", cancelled |-> FALSE,
         Origin |-> NoTimes, Destination |-> NoTimes,
         PolylineGroup |-> << <<13, 56, 14, 57>> >>, GisRoute |-> <<>>]
LegF == [type |-> "JNY", cancelled |-> FALSE,
         Origin |-> SchedOnly(0, Malformed),
         Destination |-> SchedOnly(0, T0830),
         PolylineGroup |-> << <<12, 55, 13, 56>> >>, GisRoute |-> <<>>]
LegPool == {LegA, LegB, LegC, LegD, LegE, LegF}

MaxTripLegs == 2
MaxRawTrips == 2

SeqsUpTo(S, n) == UNION { [1..k -> S] : k \in 0..n }

\* Trips of one leg take it from LegPool; longer trips are made of the legs
\* of ChainPool.
ChainPool == {LegA, LegB, LegC, LegD}
TripPool ==
    { [shape |-> "none", Leg |-> <<>>] }
      \cup { [shape |-> "dict", Leg |-> l] : l \in LegPool }
      \cup { [shape |-> "list", Leg |-> ls] : ls \in SeqsUpTo(LegPool, 1) }
      \cup { [shape |-> "list", Leg |-> ls] :
               ls \in SeqsUpTo(ChainPool, MaxTripLegs) }
RawTripLists == SeqsUpTo(TripPool, MaxRawTrips)

\* legs = trip.get("LegList", {}).get("Leg", [])
\* if isinstance(legs, dict): legs = [legs]
LegsOf(trip) ==
    IF trip.shape = "dict" THEN <<trip.Leg>>
    ELSE IF trip.shape = "list" THEN trip.Leg ELSE <<>>

\* ---- extract_polylines -------------------------------------------------
\* for desc in descs: c = desc.get("crd", []); if c: crd = c; break
RECURSIVE FirstCrd(_)
FirstCrd(descs) ==
    IF descs = <<>> THEN <<>>
    ELSE IF Head(descs) # <<>> THEN Head(descs) ELSE FirstCrd(Tail(descs))

\* [[crd[i + 1], crd[i]] for i in range(0, len(crd) - 1, 2)]
SwapPairs(crd) ==
    [k \in 1..(Len(crd) \div 2) |-> <<crd[2 * k], crd[2 * k - 1]>>]

RECURSIVE extract_polylines_legs(_)
extract_polylines_legs(legs) ==
    IF legs = <<>> THEN <<>>
    ELSE LET leg == Head(legs)
             pg  == IF leg.type = "WALK" THEN leg.GisRoute
                    ELSE leg.PolylineGroup
             crd == FirstCrd(pg)
         IN  (IF Len(crd) < 2 THEN <<>>
              ELSE <<[type |-> leg.type, coordinates |-> SwapPairs(crd)]>>)
             \o extract_polylines_legs(Tail(legs))

extract_polylines(trip) == extract_polylines_legs(LegsOf(trip))

\* ---- process_trips -----------------------------------------------------
TRANSPORT_COLORS == 8
WalkColor == 0     \* "#888"; palette colours are 1..TRANSPORT_COLORS
NoTimeStr == -3    \* "??:??"

\* f"{dur_min // 60}h{dur_min % 60:02d}m" if dur_min >= 60 else f"{dur_min}m"
DurationStr(dur_min) ==
    IF dur_min >= 60 THEN <<dur_min \div 60, dur_min % 60>> ELSE <<dur_min>>

\* time_str[:5] if time_str else "??:??"
ClockStr(time_str) ==
    IF ~Truthy(time_str) THEN NoTimeStr
    ELSE IF time_str = Malformed THEN Malformed ELSE HourMinute(time_str)

\* transfers / changes = max(0, len(transport_legs) - 1)
RECURSIVE CountTransport(_)
CountTransport(legs) ==
    IF legs = <<>> THEN 0
    ELSE (IF Head(legs).type # "WALK" THEN 1 ELSE 0)
           + CountTransport(Tail(legs))
Transfers(legs) ==
    IF CountTransport(legs) - 1 > 0 THEN CountTransport(legs) - 1 ELSE 0

RECURSIVE LegsInfo(_, _)
LegsInfo(polylines, color_idx) ==
    IF polylines = <<>> THEN <<>>
    ELSE LET pl == Head(polylines)
         IN  IF pl.type = "WALK"
             THEN <<[type |-> pl.type, color |-> WalkColor,
                     coordinates |-> pl.coordinates]>>
                    \o LegsInfo(Tail(polylines), color_idx)
             ELSE <<[type |-> pl.type,
                     color |-> (color_idx % TRANSPORT_COLORS) + 1,
                     coordinates |-> pl.coordinates]>>
                    \o LegsInfo(Tail(polylines), color_idx + 1)

\* dep_origin.get("rtTime", dep_origin.get("time", ""))
RtOrSched(rt, sched) == IF rt # Missing THEN rt ELSE sched

\* One iteration of the loop of process_trips: "skip" (continue), "raise"
\* (an exception leaves the function) or "trip" (the entry appended).
ProcessOne(trip, index) ==
    LET polylines == extract_polylines(trip)
        legs_raw  == LegsOf(trip)
        dep_origin == legs_raw[1].Origin
        arr_dest  == legs_raw[Len(legs_raw)].Destination
        dep_time  == RtOrSched(dep_origin.rtTime, dep_origin.time)
        arr_time  == RtOrSched(arr_dest.rtTime, arr_dest.time)
        dep_date  == RtOrSched(dep_origin.rtDate, dep_origin.date)
        arr_date  == RtOrSched(arr_dest.rtDate, arr_dest.date)
        parses    == Truthy(dep_time) /\ Truthy(arr_time)
                       /\ Truthy(dep_date) /\ Truthy(arr_date)
        dur_min   == IF parses
                     THEN IntMinutes(parse_time(arr_date, arr_time)
                                       - parse_time(dep_date, dep_time))
                     ELSE 0
    IN  IF polylines = <<>> THEN [kind |-> "skip"]
        ELSE IF parses /\ (ParseRaises(dep_date, dep_time)
                             \/ ParseRaises(arr_date, arr_time))
        THEN [kind |-> "raise"]
        ELSE [kind |-> "trip",
              trip |-> [index |-> index,
                        departure |-> ClockStr(dep_time),
                        arrival |-> ClockStr(arr_time),
                        duration |-> DurationStr(dur_min),
                        transfers |-> Transfers(legs_raw),
                        legs |-> LegsInfo(polylines, 0)]]

\* process_trips(raw_trips): the list returned, or raised = TRUE when an
\* exception left the function.
RECURSIVE ProcessLoop(_, _)
ProcessLoop(rest, trips_data) ==
    IF rest = <<>> THEN [raised |-> FALSE, trips |-> trips_data]
    ELSE LET r == ProcessOne(Head(rest), Len(trips_data))
         IN  IF r.kind = "raise" THEN [raised |-> TRUE, trips |-> <<>>]
             ELSE IF r.kind = "skip" THEN ProcessLoop(Tail(rest), trips_data)
             ELSE ProcessLoop(Tail(rest), Append(trips_data, r.trip))

process_trips(raw) == ProcessLoop(raw, <<>>)

\* ---- display_trips -----------------------------------------------------
\* Whether the table marks the trip CANCELLED.
Cancelled(legs) == legs[1].cancelled

\* Mutation of Effective: the realtime value is never used.
Effective_IgnoresRealtime(rt, sched) == sched

\* dep_effective = dep_realtime if dep_realtime else dep_scheduled
Effective(rt, sched) == IF rt # NoneTime THEN rt ELSE sched

\* One iteration of the table loop of display_trips (the colour of the
\* leave-by cell, which depends on the wall clock, and the leg summary line
\* are left out).
DisplayOne(trip, i) ==
    LET legs == LegsOf(trip)
        dep_origin == legs[1].Origin
        arr_dest == legs[Len(legs)].Destination
        dep_scheduled == parse_time(dep_origin.date, dep_origin.time)
        arr_scheduled == parse_time(arr_dest.date, arr_dest.time)
        dep_realtime == IF Truthy(dep_origin.rtTime)
                        THEN parse_time(dep_origin.rtDate, dep_origin.rtTime)
                        ELSE NoneTime
        arr_realtime == IF Truthy(arr_dest.rtTime)
                        THEN parse_time(arr_dest.rtDate, arr_dest.rtTime)
                        ELSE NoneTime
        dep_effective == Effective(dep_realtime, dep_scheduled)
        arr_effective == Effective(arr_realtime, arr_scheduled)
        total_lead == WALK_MINUTES + MAX_STATION_WAIT
        leave_by == dep_effective - total_lead * 60
        at_station == leave_by + WALK_MINUTES * 60
    IN  IF legs = <<>> THEN [kind |-> "skip"]
        ELSE IF ~Truthy(dep_origin.time) \/ ~Truthy(arr_dest.time)
        THEN [kind |-> "skip"]
        ELSE IF \/ ParseRaises(dep_origin.date, dep_origin.time)
                \/ ParseRaises(arr_dest.date, arr_dest.time)
                \/ (Truthy(dep_origin.rtTime)
                      /\ ParseRaises(dep_origin.rtDate, dep_origin.rtTime))
                \/ (Truthy(arr_dest.rtTime)
                      /\ ParseRaises(arr_dest.rtDate, arr_dest.rtTime))
        THEN [kind |-> "raise"]
        ELSE [kind |-> "row",
              row |-> [i |-> i,
                       leave_by |-> leave_by,
                       at_station |-> at_station,
                       station_wait |-> IntMinutes(dep_effective - at_station),
                       dep_scheduled |-> dep_scheduled,
                       dep_realtime |-> dep_realtime,
                       arr_scheduled |-> arr_scheduled,
                       arr_realtime |-> arr_realtime,
                       duration |-> DurationStr(
                           IntMinutes(arr_effective - dep_effective)),
                       changes |-> Transfers(legs),
                       status |-> IF Cancelled(legs)
                                  THEN [color |-> "RED",
                                        label |-> "CANCELLED", minutes |-> 0]
                                  ELSE format_delay(dep_scheduled,
                                                    dep_realtime)]]

\* for i, trip in enumerate(trips, 1): the rows printed, and raised = TRUE
\* when an exception ended the program after them.
RECURSIVE DisplayLoop(_, _, _)
DisplayLoop(rest, i, rows) ==
    IF rest = <<>> THEN [raised |-> FALSE, rows |-> rows]
    ELSE LET r == DisplayOne(Head(rest), i)
         IN  IF r.kind = "raise" THEN [raised |-> TRUE, rows |-> rows]
             ELSE IF r.kind = "skip" THEN DisplayLoop(Tail(rest), i + 1, rows)
             ELSE DisplayLoop(Tail(rest), i + 1, Append(rows, r.row))

display_trips(raw) == DisplayLoop(raw, 1, <<>>)

NotRun == [raised |-> FALSE, run |-> FALSE]

InitTrips ==
    /\ raw_trips \in RawTripLists
    /\ tableOut = NotRun
    /\ mapOut = NotRun

\* display_trips prints the table for the trips search_trips returned
\* (an empty result prints "No trips found" and no table).
RunDisplayTrips ==
    /\ tableOut = NotRun
    /\ raw_trips # <<>>
    /\ tableOut' = display_trips(raw_trips)
    /\ UNCHANGED <<raw_trips, mapOut>>

RunProcessTrips ==
    /\ mapOut = NotRun
    /\ mapOut' = process_trips(raw_trips)
    /\ UNCHANGED <<raw_trips, tableOut>>

NextTrips == RunDisplayTrips \/ RunProcessTrips

(***************************************************************************)
(*                             format_delay                                *)
(***************************************************************************)
MaxDelaySeconds == 250
SchedTimes == {0, 30, 60}

InitDelay ==
    /\ scheduled \in SchedTimes
    /\ realtime \in {NoneTime} \cup 0..MaxDelaySeconds
    /\ delayOut = NotRun

FormatDelay ==
    /\ delayOut = NotRun
    /\ delayOut' = format_delay(scheduled, realtime)
    /\ UNCHANGED <<scheduled, realtime>>

NextDelay == FormatDelay

(***************************************************************************)
(*                             MAP SERVER                                  *)
(***************************************************************************)
\* ---- the query string of a request -------------------------------------
\* A character is its Unicode code point; Text writes a text of printable
\* ASCII characters.  UpToUnderscore holds the characters 32..95 and
\* FromLowerA the characters 97..126.
UpToUnderscore ==
    << " ", "!", "\"", "#", "$", "%", "&", "'", "(", ")", "*", "+", ",", "-",
       ".", "/", "0", "1", "2", "3", "4", "5", "6", "7", "8", "9", ":", ";",
       "<", "=", ">", "?", "@", "A", "B", "C", "D", "E", "F", "G", "H", "I",
       "J", "K", "L", "M", "N", "O", "P", "Q", "R", "S", "T", "U", "V", "W",
       "X", "Y", "Z", "[", "\\", "]", "^", "_" >>
FromLowerA ==
    << "a", "b", "c", "d", "e", "f", "g", "h", "i", "j", "k", "l", "m", "n",
       "o", "p", "q", "r", "s", "t", "u", "v", "w", "x", "y", "z", "{", "|",
       "}", "~" >>
Ord(c) ==
    IF \E i \in 1..Len(UpToUnderscore) : UpToUnderscore[i] = c
    THEN 31 + CHOOSE i \in 1..Len(UpToUnderscore) : UpToUnderscore[i] = c
    ELSE 96 + CHOOSE i \in 1..Len(FromLowerA) : FromLowerA[i] = c
Text(s) == [i \in 1..Len(s) |-> Ord(s[i])]

\* A parameter is absent from the URL or given with a text: qs[k][0] as
\* parse_qs returns it, percent-escapes and "+" decoded (possibly empty as
\* in "dlat=").
Keys == {"olat", "olon", "dlat", "dlon"}
NotGiven == [given |-> FALSE, text |-> <<>>]
Given(text) == [given |-> TRUE, text |-> text]
ParamValues ==
    { NotGiven, Given(<<>>), Given(Text(<<"1", "a">>)),
      Given(Text(<<"1", "2">>)), Given(Text(<<"-", "1", ".", "5">>)) }
\* Texts in the other forms float() reads and near misses of them
\* (" 12" is what "dlon=+12" and "dlon=%2012" decode to).
ExtraValues ==
    { Given(Text(<<" ", "1", "2">>)), Given(Text(<<"1", "_", "0">>)),
      Given(Text(<<"1", "e", "1">>)), Given(Text(<<"n", "a", "n">>)),
      Given(Text(<<"I", "n", "f">>)),
      Given(<<11, 49, 50>>),        \* %0B12: vertical tab, "12"
      Given(<<160, 49, 50>>),       \* %C2%A012: no-break space, "12"
      Given(<<1633, 1634>>),        \* %D9%A1%D9%A2: Arabic-Indic one, two
      Given(Text(<<"1", "_", "_", "0">>)), Given(Text(<<"1", "e">>)),
      Given(Text(<<" ">>)),
      Given(<<49, 233>>) }          \* 1%C3%A9: "1", e with acute accent
\* Every combination of ParamValues, and each of ExtraValues in one
\* parameter of an otherwise plain request.
Queries ==
    [Keys -> ParamValues]
      \cup { [k \in Keys |-> IF k = key THEN v
                             ELSE Given(Text(<<"1", "2">>))] :
                key \in Keys, v \in ExtraValues }

\* parse_qs(parsed.query): keep_blank_values is False, so a parameter given
\* with an empty text is dropped like an absent one.
parse_qs(query) == { k \in Keys : query[k].given /\ query[k].text # <<>> }

\* ---- float(text) --------------------------------------------------------
\* float() first turns every non-ASCII whitespace character into a space
\* and every non-ASCII decimal digit into its ASCII digit, and cuts the
\* text after the first other non-ASCII character, which becomes "?".
\* It then accepts "_" between two digits, strips surrounding whitespace
\* and reads
\*     [sign] (inf | infinity | nan)                  in any letter case, or
\*     [sign] (digits [. [digits]] | . digits) [(e|E) [sign] digits]
\* and raises ValueError on anything else.
\* The whitespace characters and decimal digits beyond ASCII (Unicode
\* 14.0, the character database of Python 3.11); every decimal digit
\* belongs to a run of ten that starts at one of DigitZeros.
UnicodeSpace ==
    {133, 160, 5760} \cup (8192..8202) \cup {8232, 8233, 8239, 8287, 12288}
DigitZeros ==
    { 48, 1632, 1776, 1984, 2406, 2534, 2662, 2790, 2918, 3046, 3174, 3302,
      3430, 3558, 3664, 3792, 3872, 4160, 4240, 6112, 6160, 6470, 6608,
      6784, 6800, 6992, 7088, 7232, 7248, 42528, 43216, 43264, 43472, 43504,
      43600, 44016, 65296, 66720, 68912, 69734, 69872, 69942, 70096, 70384,
      70736, 70864, 71248, 71360, 71472, 71904, 72016, 72784, 73040, 73120,
      92768, 92864, 93008, 120782, 120792, 120802, 120812, 120822, 123200,
      123632, 125264, 130032 }
UnicodeDigit == UNION { z..(z + 9) : z \in DigitZeros }
DecimalValue(c) == c - (CHOOSE z \in DigitZeros : z <= c /\ c <= z + 9)

\* position of the first (last) character of txt that is (is not) in S;
\* Len(txt) + 1 (0) when there is none
FirstIn(txt, S) ==
    IF \E i \in 1..Len(txt) : txt[i] \in S
    THEN CHOOSE i \in 1..Len(txt) :
             txt[i] \in S /\ \A j \in 1..(i - 1) : txt[j] \notin S
    ELSE Len(txt) + 1
FirstNotIn(txt, S) ==
    IF \E i \in 1..Len(txt) : txt[i] \notin S
    THEN CHOOSE i \in 1..Len(txt) :
             txt[i] \notin S /\ \A j \in 1..(i - 1) : txt[j] \in S
    ELSE Len(txt) + 1
LastNotIn(txt, S) ==
    IF \E i \in 1..Len(txt) : txt[i] \notin S
    THEN CHOOSE i \in 1..Len(txt) :
             txt[i] \notin S /\ \A j \in (i + 1)..Len(txt) : txt[j] \in S
    ELSE 0

\* _PyUnicode_TransformDecimalAndSpaceToASCII
QuestionMark == Ord("?")
Unreadable(c) == c >= 128 /\ c \notin UnicodeSpace /\ c \notin UnicodeDigit
TransformChar(c) ==
    IF c < 128 THEN c
    ELSE IF c \in UnicodeSpace THEN Ord(" ")
    ELSE IF c \in UnicodeDigit THEN Ord("0") + DecimalValue(c)
    ELSE QuestionMark
Transform(txt) ==
    LET bad == { i \in 1..Len(txt) : Unreadable(txt[i]) }
        cut == IF bad = {} THEN Len(txt)
               ELSE CHOOSE i \in bad : \A j \in bad : i <= j
    IN  [i \in 1..cut |-> TransformChar(txt[i])]

\* the ASCII digits and whitespace (space, \t, \n, \v, \f, \r)
Digit == Ord("0")..Ord("9")
Space == {9, 10, 11, 12, 13, 32}
DigitVal(c) ==
    IF c \in Digit THEN c - Ord("0")
    ELSE 0    \* not reached: float() raised on such a text
Lower(c) == IF c \in Ord("A")..Ord("Z") THEN c + 32 ELSE c
AllDigits(txt) == \A i \in 1..Len(txt) : txt[i] \in Digit

Strip(txt) ==
    LET t == Transform(txt)
    IN  SubSeq(t, FirstNotIn(t, Space), LastNotIn(t, Space))

\* every "_" stands between two digits
Underscore == Ord("_")
UnderscoresOk(txt) ==
    LET t == Transform(txt)
    IN  \A i \in 1..Len(t) :
            t[i] = Underscore => /\ 1 < i /\ i < Len(t)
                                 /\ t[i - 1] \in Digit /\ t[i + 1] \in Digit
NoUnderscores(txt) == SelectSeq(txt, LAMBDA c : c # Underscore)

Signs == {Ord("-"), Ord("+")}
Unsigned(txt) == IF txt # <<>> /\ Head(txt) \in Signs THEN Tail(txt) ELSE txt
Negative(txt) == txt # <<>> /\ Head(txt) = Ord("-")

\* the text float() parses: stripped, without underscores and sign
Numeral(txt) == Unsigned(NoUnderscores(Strip(txt)))
LowerText(txt) == [i \in 1..Len(txt) |-> Lower(txt[i])]
InfTexts == { Text(<<"i", "n", "f">>),
              Text(<<"i", "n", "f", "i", "n", "i", "t", "y">>) }
NanText == Text(<<"n", "a", "n">>)
IsInf(u) == LowerText(u) \in InfTexts
IsNan(u) == LowerText(u) = NanText

\* number of characters before the first "e" or "E"
ExponentMarks == {Ord("e"), Ord("E")}
MantLen(txt) == FirstIn(txt, ExponentMarks) - 1
Mantissa(u) == SubSeq(u, 1, MantLen(u))
HasExponent(u) == MantLen(u) < Len(u)
Exponent(u) == SubSeq(u, MantLen(u) + 2, Len(u))

\* number of characters before the first "."
Point == {Ord(".")}
WholeLen(txt) == FirstIn(txt, Point) - 1
WholePart(txt) == SubSeq(txt, 1, WholeLen(txt))
FracPart(txt) == SubSeq(txt, WholeLen(txt) + 2, Len(txt))

IsDecimal(u) ==
    /\ AllDigits(WholePart(Mantissa(u)))
    /\ AllDigits(FracPart(Mantissa(u)))
    /\ Len(WholePart(Mantissa(u))) + Len(FracPart(Mantissa(u))) > 0
    /\ HasExponent(u) =>
         /\ Unsigned(Exponent(u)) # <<>>
         /\ AllDigits(Unsigned(Exponent(u)))

\* float(text) raises ValueError
FloatRaises(txt) ==
    \/ ~UnderscoresOk(txt)
    \/ LET u == Numeral(txt) IN ~(IsInf(u) \/ IsNan(u) \/ IsDecimal(u))

\* ---- the value of float(text) ----
\* A finite value is kept as the decimal 0.d1d2...dn * 10^mag it is the
\* nearest double of (d1 # 0, dn # 0; no digits for zero).
RECURSIVE DigitsValue(_)
DigitsValue(ds) ==
    IF ds = <<>> THEN 0
    ELSE DigitsValue(SubSeq(ds, 1, Len(ds) - 1)) * 10 + DigitVal(ds[Len(ds)])
AsciiZero == {Ord("0")}
DropLeadingZeros(ds) == SubSeq(ds, FirstNotIn(ds, AsciiZero), Len(ds))
DropTrailingZeros(ds) == SubSeq(ds, 1, LastNotIn(ds, AsciiZero))

\* The exponent as an integer.  A request line is shorter than 65537
\* bytes, so beyond six digits the exponent alone decides between zero
\* and infinity and its value is capped.
ExponentCap == 1000000
ExponentValue(u) ==
    IF ~HasExponent(u) THEN 0
    ELSE LET ds == DropLeadingZeros(Unsigned(Exponent(u)))
             n == IF Len(ds) > 6 THEN ExponentCap ELSE DigitsValue(ds)
         IN  IF Negative(Exponent(u)) THEN -n ELSE n

\* 0.a compared with 0.b as decimal fractions: -1, 0 or 1
FracCmp(a, b) ==
    LET n == IF Len(a) > Len(b) THEN Len(a) ELSE Len(b)
        A(i) == IF i <= Len(a) THEN a[i] ELSE 0
        B(i) == IF i <= Len(b) THEN b[i] ELSE 0
    IN  IF \A i \in 1..n : A(i) = B(i) THEN 0
        ELSE LET d == CHOOSE i \in 1..n :
                          A(i) # B(i) /\ \A j \in 1..(i - 1) : A(j) = B(j)
             IN  IF A(d) < B(d) THEN -1 ELSE 1

\* Rounding to a double (round-half-even): a decimal of at least
\* 2^1024 - 2^970 = 0.OverflowDigits * 10^309 becomes infinity, one of at
\* most 2^-1075 = 0.UnderflowDigits * 10^-323 becomes zero.
OverflowDigits ==
    << 1, 7, 9, 7, 6, 9, 3, 1, 3, 4, 8, 6, 2, 3, 1, 5, 8, 0, 7, 9, 3, 7, 2, 8,
       9, 7, 1, 4, 0, 5, 3, 0, 3, 4, 1, 5, 0, 7, 9, 9, 3, 4, 1, 3, 2, 7, 1, 0,
       0, 3, 7, 8, 2, 6, 9, 3, 6, 1, 7, 3, 7, 7, 8, 9, 8, 0, 4, 4, 4, 9, 6, 8,
       2, 9, 2, 7, 6, 4, 7, 5, 0, 9, 4, 6, 6, 4, 9, 0, 1, 7, 9, 7, 7, 5, 8, 7,
       2, 0, 7, 0, 9, 6, 3, 3, 0, 2, 8, 6, 4, 1, 6, 6, 9, 2, 8, 8, 7, 9, 1, 0,
       9, 4, 6, 5, 5, 5, 5, 4, 7, 8, 5, 1, 9, 4, 0, 4, 0, 2, 6, 3, 0, 6, 5, 7,
       4, 8, 8, 6, 7, 1, 5, 0, 5, 8, 2, 0, 6, 8, 1, 9, 0, 8, 9, 0, 2, 0, 0, 0,
       7, 0, 8, 3, 8, 3, 6, 7, 6, 2, 7, 3, 8, 5, 4, 8, 4, 5, 8, 1, 7, 7, 1, 1,
       5, 3, 1, 7, 6, 4, 4, 7, 5, 7, 3, 0, 2, 7, 0, 0, 6, 9, 8, 5, 5, 5, 7, 1,
       3, 6, 6, 9, 5, 9, 6, 2, 2, 8, 4, 2, 9, 1, 4, 8, 1, 9, 8, 6, 0, 8, 3, 4,
       9, 3, 6, 4, 7, 5, 2, 9, 2, 7, 1, 9, 0, 7, 4, 1, 6, 8, 4, 4, 4, 3, 6, 5,
       5, 1, 0, 7, 0, 4, 3, 4, 2, 7, 1, 1, 5, 5, 9, 6, 9, 9, 5, 0, 8, 0, 9, 3,
       0, 4, 2, 8, 8, 0, 1, 7, 7, 9, 0, 4, 1, 7, 4, 4, 9, 7, 7, 9, 2 >>
UnderflowDigits ==
    << 2, 4, 7, 0, 3, 2, 8, 2, 2, 9, 2, 0, 6, 2, 3, 2, 7, 2, 0, 8, 8, 2, 8, 4,
       3, 9, 6, 4, 3, 4, 1, 1, 0, 6, 8, 6, 1, 8, 2, 5, 2, 9, 9, 0, 1, 3, 0, 7,
       1, 6, 2, 3, 8, 2, 2, 1, 2, 7, 9, 2, 8, 4, 1, 2, 5, 0, 3, 3, 7, 7, 5, 3,
       6, 3, 5, 1, 0, 4, 3, 7, 5, 9, 3, 2, 6, 4, 9, 9, 1, 8, 1, 8, 0, 8, 1, 7,
       9, 9, 6, 1, 8, 9, 8, 9, 8, 2, 8, 2, 3, 4, 7, 7, 2, 2, 8, 5, 8, 8, 6, 5,
       4, 6, 3, 3, 2, 8, 3, 5, 5, 1, 7, 7, 9, 6, 9, 8, 9, 8, 1, 9, 9, 3, 8, 7,
       3, 9, 8, 0, 0, 5, 3, 9, 0, 9, 3, 9, 0, 6, 3, 1, 5, 0, 3, 5, 6, 5, 9, 5,
       1, 5, 5, 7, 0, 2, 2, 6, 3, 9, 2, 2, 9, 0, 8, 5, 8, 3, 9, 2, 4, 4, 9, 1,
       0, 5, 1, 8, 4, 4, 3, 5, 9, 3, 1, 8, 0, 2, 8, 4, 9, 9, 3, 6, 5, 3, 6, 1,
       5, 2, 5, 0, 0, 3, 1, 9, 3, 7, 0, 4, 5, 7, 6, 7, 8, 2, 4, 9, 2, 1, 9, 3,
       6, 5, 6, 2, 3, 6, 6, 9, 8, 6, 3, 6, 5, 8, 4, 8, 0, 7, 5, 7, 0, 0, 1, 5,
       8, 5, 7, 6, 9, 2, 6, 9, 9, 0, 3, 7, 0, 6, 3, 1, 1, 9, 2, 8, 2, 7, 9, 5,
       5, 8, 5, 5, 1, 3, 3, 2, 9, 2, 7, 8, 3, 4, 3, 3, 8, 4, 0, 9, 3, 5, 1, 9,
       7, 8, 0, 1, 5, 5, 3, 1, 2, 4, 6, 5, 9, 7, 2, 6, 3, 5, 7, 9, 5, 7, 4, 6,
       2, 2, 7, 6, 6, 4, 6, 5, 2, 7, 2, 8, 2, 7, 2, 2, 0, 0, 5, 6, 3, 7, 4, 0,
       0, 6, 4, 8, 5, 4, 9, 9, 9, 7, 7, 0, 9, 6, 5, 9, 9, 4, 7, 0, 4, 5, 4, 0,
       2, 0, 8, 2, 8, 1, 6, 6, 2, 2, 6, 2, 3, 7, 8, 5, 7, 3, 9, 3, 4, 5, 0, 7,
       3, 6, 3, 3, 9, 0, 0, 7, 9, 6, 7, 7, 6, 1, 9, 3, 0, 5, 7, 7, 5, 0, 6, 7,
       4, 0, 1, 7, 6, 3, 2, 4, 6, 7, 3, 6, 0, 0, 9, 6, 8, 9, 5, 1, 3, 4, 0, 5,
       3, 5, 5, 3, 7, 4, 5, 8, 5, 1, 6, 6, 6, 1, 1, 3, 4, 2, 2, 3, 7, 6, 6, 6,
       7, 8, 6, 0, 4, 1, 6, 2, 1, 5, 9, 6, 8, 0, 4, 6, 1, 9, 1, 4, 4, 6, 7, 2,
       9, 1, 8, 4, 0, 3, 0, 0, 5, 3, 0, 0, 5, 7, 5, 3, 0, 8, 4, 9, 0, 4, 8, 7,
       6, 5, 3, 9, 1, 7, 1, 1, 3, 8, 6, 5, 9, 1, 6, 4, 6, 2, 3, 9, 5, 2, 4, 9,
       1, 2, 6, 2, 3, 6, 5, 3, 8, 8, 1, 8, 7, 9, 6, 3, 6, 2, 3, 9, 3, 7, 3, 2,
       8, 0, 4, 2, 3, 8, 9, 1, 0, 1, 8, 6, 7, 2, 3, 4, 8, 4, 9, 7, 6, 6, 8, 2,
       3, 5, 0, 8, 9, 8, 6, 3, 3, 8, 8, 5, 8, 7, 9, 2, 5, 6, 2, 8, 3, 0, 2, 7,
       5, 5, 9, 9, 5, 6, 5, 7, 5, 2, 4, 4, 5, 5, 5, 0, 7, 2, 5, 5, 1, 8, 9, 3,
       1, 3, 6, 9, 0, 8, 3, 6, 2, 5, 4, 7, 7, 9, 1, 8, 6, 9, 4, 8, 6, 6, 7, 9,
       9, 4, 9, 6, 8, 3, 2, 4, 0, 4, 9, 7, 0, 5, 8, 2, 1, 0, 2, 8, 5, 1, 3, 1,
       8, 5, 4, 5, 1, 3, 9, 6, 2, 1, 3, 8, 3, 7, 7, 2, 2, 8, 2, 6, 1, 4, 5, 4,
       3, 7, 6, 9, 3, 4, 1, 2, 5, 3, 2, 0, 9, 8, 5, 9, 1, 3, 2, 7, 6, 6, 7, 2,
       3, 6, 3, 2, 8, 1, 2, 5 >>
OverflowMag == 309
UnderflowMag == -323

Zero(neg) == [kind |-> "finite", neg |-> neg, digits |-> <<>>, mag |-> 0]
Infinity(neg) == [kind |-> "inf", neg |-> neg, digits |-> <<>>, mag |-> 0]
NaN == [kind |-> "nan", neg |-> FALSE, digits |-> <<>>, mag |-> 0]

FloatValue(txt) ==
    LET s == NoUnderscores(Strip(txt))
        neg == Negative(s)
        u == Unsigned(s)
        whole == WholePart(Mantissa(u))
        all == whole \o FracPart(Mantissa(u))
        sig == DropLeadingZeros(all)
        ds == DropTrailingZeros(sig)
        digits == [i \in 1..Len(ds) |-> DigitVal(ds[i])]
        mag == Len(whole) - (Len(all) - Len(sig)) + ExponentValue(u)
    IN  IF IsNan(u) THEN NaN
        ELSE IF IsInf(u) THEN Infinity(neg)
        ELSE IF digits = <<>> THEN Zero(neg)
        ELSE IF mag > OverflowMag
                  \/ (mag = OverflowMag
                        /\ FracCmp(digits, OverflowDigits) >= 0)
             THEN Infinity(neg)
        ELSE IF mag < UnderflowMag
                  \/ (mag = UnderflowMag
                        /\ FracCmp(digits, UnderflowDigits) <= 0)
             THEN Zero(neg)
        ELSE [kind |-> "finite", neg |-> neg, digits |-> digits, mag |-> mag]

\* float, on the texts the requests carry
ValueError == [kind |-> "ValueError", neg |-> FALSE, digits |-> <<>>,
               mag |-> 0]
RequestTexts == { v.text : v \in ParamValues \cup ExtraValues }
float ==
    [txt \in RequestTexts |->
        IF FloatRaises(txt) THEN ValueError ELSE FloatValue(txt)]

\* Mutation of CoordsRejected: dlon is never looked at.
CoordsRejected_ThreeKeys(query) ==
    \E k \in Keys \ {"dlon"} :
        k \notin parse_qs(query) \/ float[query[k].text] = ValueError

\* try: olat = float(qs["olat"][0]) ... except (KeyError, ValueError, ...)
CoordsRejected(query) ==
    \E k \in Keys :
        k \notin parse_qs(query) \/ float[query[k].text] = ValueError

\* ---- the upstream trip search ------------------------------------------
\* RejseplanenREST._get ends in one of: URLError (unreachable, timed out
\* while connecting), another exception (timed out while reading, body not
\* JSON), or the parsed JSON, whose "Trip" is absent, one object or a list.
ServerTripPool ==
    { [shape |-> "list", Leg |-> <<LegA>>],
      [shape |-> "list", Leg |-> <<LegA, LegB>>],
      [shape |-> "dict", Leg |-> LegF] }
UpstreamOutcomes ==
    { [kind |-> "URLError", shape |-> "none", Trip |-> <<>>],
      [kind |-> "otherError", shape |-> "none", Trip |-> <<>>],
      [kind |-> "json", shape |-> "none", Trip |-> <<>>] }
      \cup { [kind |-> "json", shape |-> "dict", Trip |-> t] :
               t \in ServerTripPool }
      \cup { [kind |-> "json", shape |-> "list", Trip |-> ts] :
               ts \in SeqsUpTo(ServerTripPool, MaxRawTrips) }

\* search_trips: trips = result.get("Trip", [])
\* if isinstance(trips, dict): trips = [trips]
search_trips(up) ==
    IF up.shape = "dict" THEN <<up.Trip>>
    ELSE IF up.shape = "list" THEN up.Trip ELSE <<>>

NoResponse == [status |-> 0, body |-> "none", trips |-> <<>>,
               cache_control |-> "none"]

InitServer ==
    /\ serverUp = TRUE
    /\ exitCode = 0
    /\ inUrlopen = FALSE
    /\ lastRequest = [path |-> "none", query |-> [k \in Keys |-> NotGiven],
                      upstream |-> "none", raw |-> <<>>]
    /\ lastResponse = NoResponse
    /\ upstreamLog = <<>>

\* What _get does on URLError: print, then sys.exit(1).  SystemExit is not
\* an Exception, so neither _handle_trips nor socketserver handles it and
\* serve_forever ends with it: the process exits with status 1 and the
\* request gets no response.
OnURLError ==
    /\ serverUp' = FALSE
    /\ exitCode' = 1
    /\ lastResponse' = NoResponse

\* except Exception as e: 500 with {"error": str(e)}
Respond500 ==
    /\ lastResponse' = [status |-> 500, body |-> "error", trips |-> <<>>,
                        cache_control |-> "none"]
    /\ UNCHANGED <<serverUp, exitCode>>

\* RequestHandler._handle_trips for GET /api/trips?<query>, up to the 400
\* or up to urlopen in _get (called through search_trips), where the
\* handler waits for the upstream.  The server handles one request at a
\* time (HTTPServer).
HandleTrips(query) ==
    /\ serverUp
    /\ ~inUrlopen
    /\ UNCHANGED <<serverUp, exitCode>>
    /\ IF CoordsRejected(query)
       THEN /\ lastRequest' = [path |-> "/api/trips", query |-> query,
                               upstream |-> "none", raw |-> <<>>]
            /\ lastResponse' = [status |-> 400,
                                body |-> "Missing or invalid coordinates",
                                trips |-> <<>>, cache_control |-> "none"]
            /\ upstreamLog' = <<>>
            /\ inUrlopen' = FALSE
       ELSE /\ lastRequest' = [path |-> "/api/trips", query |-> query,
                               upstream |-> "pending", raw |-> <<>>]
            /\ lastResponse' = NoResponse
            /\ upstreamLog' =
                 <<[origin_coord |-> <<float[query["olat"].text],
                                       float[query["olon"].text]>>,
                    dest_coord |-> <<float[query["dlat"].text],
                                     float[query["dlon"].text]>>,
                    poly |-> TRUE, num_results |-> 6]>>
            /\ inUrlopen' = TRUE

\* urlopen returns or raises with the outcome up: the rest of _get, of
\* search_trips and of _handle_trips.
UpstreamReturns(up) ==
    /\ serverUp
    /\ inUrlopen
    /\ inUrlopen' = FALSE
    /\ lastRequest' = [lastRequest EXCEPT !.upstream = up.kind,
                                          !.raw = search_trips(up)]
    /\ UNCHANGED upstreamLog
    /\ IF up.kind = "URLError" THEN OnURLError
       ELSE IF up.kind = "otherError" THEN Respond500
       ELSE LET trips_data == process_trips(search_trips(up))
            IN  IF trips_data.raised THEN Respond500
                ELSE /\ lastResponse' =
                          [status |-> 200, body |-> "trips",
                           trips |-> trips_data.trips,
                           cache_control |-> "no-cache"]
                     /\ UNCHANGED <<serverUp, exitCode>>

\* Ctrl+C: KeyboardInterrupt reaches the except clause around
\* serve_forever(), which prints "Server stopped." and closes the server;
\* generate_map returns and the process ends with status 0.  While the
\* handler waits in urlopen the exception passes `except URLError` of _get
\* and `except Exception` of _handle_trips (it is neither), so the request
\* that called the upstream gets no response.  Between requests no request
\* is handled by this step.
Interrupt ==
    /\ serverUp
    /\ serverUp' = FALSE
    /\ exitCode' = 0
    /\ inUrlopen' = FALSE
    /\ lastResponse' = NoResponse
    /\ IF inUrlopen
       THEN /\ lastRequest' =
                 [lastRequest EXCEPT !.upstream = "KeyboardInterrupt"]
            /\ UNCHANGED upstreamLog
       ELSE /\ lastRequest' =
                 [path |-> "none", query |-> [k \in Keys |-> NotGiven],
                  upstream |-> "none", raw |-> <<>>]
            /\ upstreamLog' = <<>>

\* RequestHandler.do_GET for any other path: the page.
HandlePage ==
    /\ serverUp
    /\ ~inUrlopen
    /\ lastRequest' = [path |-> "/", query |-> [k \in Keys |-> NotGiven],
                       upstream |-> "none", raw |-> <<>>]
    /\ lastResponse' = [status |-> 200, body |-> "MAP_HTML", trips |-> <<>>,
                        cache_control |-> "none"]
    /\ upstreamLog' = <<>>
    /\ UNCHANGED <<serverUp, exitCode, inUrlopen>>

NextServer ==
    \/ \E query \in Queries : HandleTrips(query)
    \/ \E up \in UpstreamOutcomes : UpstreamReturns(up)
    \/ HandlePage
    \/ Interrupt

(***************************************************************************)
(* Idle values of the other parts                                          *)
(***************************************************************************)
IdleClient == InitClient
IdleServer == InitServer
IdleTrips == raw_trips = <<>> /\ tableOut = NotRun /\ mapOut = NotRun
IdleDelay == scheduled = 0 /\ realtime = NoneTime /\ delayOut = NotRun

Init == InitClient /\ IdleServer /\ IdleTrips /\ IdleDelay
Next == NextClient /\ UNCHANGED <<serverVars, tripVars, delayVars>>
Spec == Init /\ [][Next]_vars

InitS == IdleClient /\ InitServer /\ IdleTrips /\ IdleDelay
NextS == NextServer /\ UNCHANGED <<clientVars, tripVars, delayVars>>
SpecServer == InitS /\ [][NextS]_vars

InitT == IdleClient /\ IdleServer /\ InitTrips /\ IdleDelay
NextT == NextTrips /\ UNCHANGED <<clientVars, serverVars, delayVars>>
SpecTrips == InitT /\ [][NextT]_vars

InitD == IdleClient /\ IdleServer /\ IdleTrips /\ InitDelay
NextD == NextDelay /\ UNCHANGED <<clientVars, serverVars, tripVars>>
SpecDelay == InitD /\ [][NextD]_vars

(***************************************************************************)
(*                      CLAIMS: BROWSER CLIENT                             *)
(***************************************************************************)
ClientPage == <<originMarker, destMarker, tripLayers, trips, selectedIndex,
                fetching, mapLayers, listEl, header, pending>>

\* C1: at most one request to /api/trips is outstanding at any time (a
\* trigger that comes while a fetch is outstanding starts no second one).
C1_SingleFetchInFlight == Len(pending) <= 1

\* C4: a map click handled while any fetch is outstanding changes nothing
\* on the page (no marker placed or removed, no reset).
C4_ClickIgnoredWhileInFlight ==
    [][(lastEvent'.type = "click" /\ Len(pending) > 0)
          => UNCHANGED ClientPage]_vars

\* C5: a map click handled while `fetching` is false moves Empty to
\* OriginSet (origin at the click), OriginSet to BothSet (destination at the
\* click), and BothSet to OriginSet in one step, where both old markers are
\* gone, no route stays drawn, the trip list is empty, the new origin is at
\* the click and no fetch is started.
C5_ClickTransitions ==
    [][(lastEvent'.type = "click" /\ ~fetching) =>
         /\ SessionState = "Empty" =>
              /\ originMarker' = lastEvent'.p
              /\ destMarker' = NoMarker
         /\ SessionState = "OriginSet" =>
              /\ originMarker' = originMarker
              /\ destMarker' = lastEvent'.p
         /\ SessionState = "BothSet" =>
              /\ originMarker' = lastEvent'.p
              /\ destMarker' = NoMarker
              /\ mapLayers' = {}
              /\ tripLayers' = <<>>
              /\ trips' = EmptyTrips
              /\ listEl' = Instructions
              /\ pending' = pending
              /\ fetching' = FALSE]_vars

\* A reset click has been handled with routes drawn on the map.
C5_Witness ==
    /\ lastEvent.type = "click"
    /\ lastEvent.from = "BothSet"
    /\ ~lastEvent.fetchingBefore
    /\ lastEvent.routesBefore
    /\ originMarker = lastEvent.p
    /\ destMarker = NoMarker

\* C6: a request is sent only with both markers set, and it carries the
\* markers' coordinates as the handler left them; placing the destination
\* marker sends one, a drag-end of either marker in BothSet sends one, a
\* drag-end of the origin marker in OriginSet sends none.
C6_FetchOnlyWithBothMarkers ==
    [][/\ Len(pending') > Len(pending) =>
            /\ originMarker' # NoMarker
            /\ destMarker' # NoMarker
            /\ pending' = Append(pending, [o |-> originMarker',
                                           d |-> destMarker'])
       /\ (lastEvent'.type = "click" /\ ~fetching
              /\ SessionState = "OriginSet") =>
            Len(pending') = Len(pending) + 1
       /\ (lastEvent'.type \in {"dragOrigin", "dragDest"}
              /\ SessionState = "BothSet") =>
            Len(pending') = Len(pending) + 1
       /\ (lastEvent'.type = "dragOrigin" /\ SessionState = "OriginSet") =>
            pending' = pending]_vars

\* A drag-end in BothSet moved a marker and sent a request with the new
\* coordinates.
C6_Witness ==
    /\ lastEvent.type \in {"dragOrigin", "dragDest"}
    /\ lastEvent.from = "BothSet"
    /\ Len(pending) = lastEvent.inFlightBefore + 1
    /\ pending[Len(pending)] = [o |-> originMarker, d |-> destMarker]
    /\ originMarker # destMarker

(***************************************************************************)
(*                        CLAIMS: MAP SERVER                               *)
(***************************************************************************)
\* C2: when the upstream call of a GET /api/trips with valid coordinates
\* fails at the transport layer, that request is answered with HTTP 500
\* and the server process keeps running.
C2_TransportFailureIs500 ==
    lastRequest.upstream \in {"URLError", "otherError"} =>
        /\ lastResponse.status = 500
        /\ lastResponse.body = "error"
        /\ serverUp

\* A coordinate parameter as the request line gives it: missing, or with a
\* text that is not a number.
BadCoordinate(param) == ~param.given \/ FloatRaises(param.text)

\* C3: a GET /api/trips in which any of olat, olon, dlat, dlon is missing or
\* not parseable as a number is answered with HTTP 400, and no upstream call
\* is made for it.
C3_BadCoordinatesGet400 ==
    (lastRequest.path = "/api/trips"
       /\ \E k \in Keys : BadCoordinate(lastRequest.query[k])) =>
        /\ lastResponse.status = 400
        /\ upstreamLog = <<>>
        /\ lastRequest.upstream = "none"

\* olat and olon are numbers, dlat is missing: the request got a 400.
C3_Witness ==
    /\ lastRequest.path = "/api/trips"
    /\ ~BadCoordinate(lastRequest.query["olat"])
    /\ ~BadCoordinate(lastRequest.query["olon"])
    /\ ~lastRequest.query["dlat"].given
    /\ lastResponse.status = 400
    /\ serverUp

\* A trip whose processing raises an error.
RaisesInMap(trip) == ProcessOne(trip, 0).kind = "raise"
WithoutRaising(raw) == SelectSeq(raw, LAMBDA t : ~RaisesInMap(t))

\* C9: when processing one trip of an upstream result raises an error, only
\* that trip is dropped: the response is HTTP 200 with all the other trips.
C9_TripErrorIsContained ==
    (lastRequest.path = "/api/trips" /\ lastRequest.upstream = "json") =>
        /\ lastResponse.status = 200
        /\ lastResponse.trips
             = process_trips(WithoutRaising(lastRequest.raw)).trips

(***************************************************************************)
(*                      CLAIMS: TRIP PIPELINES                             *)
(***************************************************************************)
\* C7: a row of the leave-by table has status CANCELLED if and only if the
\* first leg or the last leg of its trip carries a cancellation flag.
C7_CancelledIffFirstOrLastLeg ==
    tableOut # NotRun =>
        \A r \in 1..Len(tableOut.rows) :
            LET row == tableOut.rows[r]
                legs == LegsOf(raw_trips[row.i])
            IN  (row.status.label = "CANCELLED")
                  <=> (legs[1].cancelled \/ legs[Len(legs)].cancelled)

\* A trip with a first leg that has a scheduled departure time and a last
\* leg that has a scheduled arrival time.
HasSchedTimes(trip) ==
    /\ LegsOf(trip) # <<>>
    /\ Truthy(LegsOf(trip)[1].Origin.time)
    /\ Truthy(LegsOf(trip)[Len(LegsOf(trip))].Destination.time)

\* C8: a trip with no legs, or without a scheduled departure time on its
\* first leg or a scheduled arrival time on its last leg, is left out of the
\* table and of the map response; no row or entry has a missing departure
\* or arrival time.
C8_TripsWithoutTimesExcluded ==
    /\ tableOut # NotRun =>
         \A r \in 1..Len(tableOut.rows) :
             HasSchedTimes(raw_trips[tableOut.rows[r].i])
    /\ (mapOut # NotRun /\ ~mapOut.raised) =>
         /\ \A n \in 1..Len(mapOut.trips) :
               /\ mapOut.trips[n].departure # NoTimeStr
               /\ mapOut.trips[n].arrival # NoTimeStr
         /\ mapOut.trips
              = process_trips(SelectSeq(raw_trips, HasSchedTimes)).trips

(***************************************************************************)
(*                        CLAIMS: format_delay                             *)
(***************************************************************************)
DelaySeconds == realtime - scheduled
DelayClass ==
    IF delayOut.color = "DIM" THEN "NoRealtimeData"
    ELSE IF delayOut.color = "GREEN" THEN "OnTime"
    ELSE IF delayOut.color = "YELLOW" THEN "MinorDelay" ELSE "MajorDelay"

\* The thresholds of the classification, common to C10 as stated and as
\* amended.
DelayClassIsRight ==
    /\ realtime = NoneTime => DelayClass = "NoRealtimeData"
    /\ (realtime # NoneTime /\ DelaySeconds <= 0) => DelayClass = "OnTime"
    /\ (realtime # NoneTime /\ 0 < DelaySeconds /\ DelaySeconds <= 180) =>
          DelayClass = "MinorDelay"
    /\ (realtime # NoneTime /\ DelaySeconds > 180) =>
          DelayClass = "MajorDelay"

\* C10 (as stated): the class follows the thresholds; exactly 3 minutes is
\* MinorDelay(3); a MajorDelay reports the difference rounded, to the
\* nearest minute or upwards, and a difference just over 3 minutes
\* reports 4.
C10_MajorDelayRounded ==
    delayOut # NotRun =>
        /\ DelayClassIsRight
        /\ (realtime # NoneTime /\ DelaySeconds = 180) =>
              delayOut.minutes = 3
        /\ (realtime # NoneTime /\ DelaySeconds > 180) =>
              /\ \/ /\ 60 * delayOut.minutes - 30 <= DelaySeconds
                    /\ DelaySeconds <= 60 * delayOut.minutes + 30
                 \/ /\ 60 * (delayOut.minutes - 1) < DelaySeconds
                    /\ DelaySeconds <= 60 * delayOut.minutes
              /\ DelaySeconds < 240 => delayOut.minutes = 4

\* C10 (amended): the class follows the thresholds; exactly 3 minutes is
\* MinorDelay(3); the minutes reported by MinorDelay and MajorDelay are the
\* whole minutes of the difference, seconds dropped, so a difference just
\* over 3 minutes is a MajorDelay that reports 3.
C10_DelayMinutesTruncated ==
    delayOut # NotRun =>
        /\ DelayClassIsRight
        /\ (realtime # NoneTime /\ DelaySeconds = 180) =>
              delayOut.minutes = 3
        /\ (realtime # NoneTime /\ DelaySeconds > 0) =>
              /\ 60 * delayOut.minutes <= DelaySeconds
              /\ DelaySeconds < 60 * (delayOut.minutes + 1)
              /\ delayOut.label = "+N min"

\* format_delay has classified a delay of 3 minutes and 1 second.
C10_Witness ==
    /\ delayOut # NotRun
    /\ realtime # NoneTime
    /\ DelaySeconds = 181
    /\ DelayClass = "MajorDelay"
    /\ delayOut.minutes = 3

(***************************************************************************)
(*                       CLAIMS: LEAVE-BY TABLE                            *)
(***************************************************************************)
\* The first leg's departure as the upstream record gives it: the realtime
\* departure when the record has one, the scheduled departure otherwise.
EffectiveDeparture(trip) ==
    LET o == LegsOf(trip)[1].Origin
    IN  IF o.rtTime # Missing THEN o.rtDate * DaySeconds + o.rtTime
        ELSE o.date * DaySeconds + o.time

\* C11: in every row of the leave-by table, leaveOfficeAt is the effective
\* departure minus (walkMinutes + maxStationWaitMinutes), arriveStationAt is
\* walkMinutes after leaveOfficeAt, and stationWaitMinutes is the effective
\* departure minus arriveStationAt; scheduled 08:00 with realtime 08:02
\* shows 07:53 / 08:00 / 2.
C11_LeaveByIdentity ==
    tableOut # NotRun =>
        \A r \in 1..Len(tableOut.rows) :
            LET row == tableOut.rows[r]
                eff == EffectiveDeparture(raw_trips[row.i])
            IN  /\ row.leave_by = eff - 60 * (WALK_MINUTES + MAX_STATION_WAIT)
                /\ row.at_station - row.leave_by = 60 * WALK_MINUTES
                /\ 60 * row.station_wait = eff - row.at_station
                /\ (row.dep_scheduled = T0800 /\ row.dep_realtime = T0802) =>
                      /\ HourMinute(row.leave_by) = 7 * 60 + 53
                      /\ HourMinute(row.at_station) = 8 * 60
                      /\ row.station_wait = 2

\* The table has a row for a trip scheduled at 08:00 that leaves at 08:02.
C11_Witness ==
    /\ tableOut # NotRun
    /\ \E r \in 1..Len(tableOut.rows) :
          /\ tableOut.rows[r].dep_scheduled = T0800
          /\ tableOut.rows[r].dep_realtime = T0802
          /\ HourMinute(tableOut.rows[r].leave_by) = 7 * 60 + 53

(***************************************************************************)
(*              CLAIMS: BROWSER CLIENT, RENDERING AND FETCHING             *)
(***************************************************************************)
\* C12: whenever no fetch is outstanding and a non-empty trip list is
\* displayed, both markers are set, the displayed trips answer the request
\* made with the markers' current coordinates, and the map holds exactly one
\* drawn layer group per displayed trip.
C12_DisplayedTripsAreCurrent ==
    (Len(pending) = 0 /\ trips.isArray /\ Len(trips.items) > 0) =>
        /\ originMarker # NoMarker
        /\ destMarker # NoMarker
        /\ trips.req = [o |-> originMarker, d |-> destMarker]
        /\ Len(tripLayers) = Len(trips.items)
        /\ mapLayers = FlattenLayers(tripLayers)

SettleKinds == {"array", "errorBody", "failure"}

\* C13: every completion of a fetch (non-empty array, empty array, error
\* body, or failure) sets `fetching` to false, and once no response is
\* outstanding `fetching` is false, so map clicks are accepted again.
C13_FetchingClearedOnCompletion ==
    /\ [](Len(pending) = 0 => ~fetching)
    /\ [][(lastEvent'.type \in SettleKinds
             /\ Len(pending') < Len(pending)) => ~fetching']_vars

\* The last outstanding fetch failed while `fetching` was set, and the flag
\* is clear.
C13_Witness ==
    /\ lastEvent.type = "failure"
    /\ lastEvent.fetchingBefore
    /\ lastEvent.inFlightBefore = 1
    /\ Len(pending) = 0
    /\ ~fetching

(***************************************************************************)
(*                     CLAIMS: INDEXES OF THE MAP TRIPS                    *)
(***************************************************************************)
\* A leg with extractable geometry: the first non-empty crd array of the
\* polyline group read for its type has at least one coordinate pair.
LegHasGeometry(leg) ==
    LET descs == IF leg.type = "WALK" THEN leg.GisRoute
                 ELSE leg.PolylineGroup
    IN  \E j \in 1..Len(descs) :
            /\ Len(descs[j]) >= 2
            /\ \A k \in 1..(j - 1) : descs[k] = <<>>
TripHasGeometry(trip) ==
    \E n \in 1..Len(LegsOf(trip)) : LegHasGeometry(LegsOf(trip)[n])

\* The trips of a response as renderTrips reads them.
AsClientItems(entries) ==
    [n \in 1..Len(entries) |->
        [index |-> entries[n].index, legs |-> Len(entries[n].legs)]]

\* What C14 says of an outcome of process_trips on raw: the trips with
\* geometry, in upstream order, indexed 0, 1, ..., n-1, each index being the
\* position of that trip's layers in the list renderTrips builds.
IndexedInOrder(raw, out) ==
    LET expected == SelectSeq(raw, TripHasGeometry)
        layers == DrawTrips(AsClientItems(out.trips), {})
    IN  /\ Len(out.trips) = Len(expected)
        /\ \A n \in 1..Len(out.trips) :
              /\ out.trips[n].index = n - 1
              /\ out.trips[n].legs
                   = LegsInfo(extract_polylines(expected[n]), 0)
              /\ out.trips[n].transfers = Transfers(LegsOf(expected[n]))
              /\ out.trips[n].index < Len(layers)
              /\ \A k \in 1..Len(layers[n]) :
                    layers[n][k].tripIndex = out.trips[n].index

\* C14: for every list of raw trips, process_trips returns the trips that
\* have a leg with extractable geometry, in upstream order, with index
\* fields 0, 1, ..., n-1 in output order, each a valid position in the
\* client's per-trip layer list.
C14_ContiguousIndexes ==
    mapOut # NotRun =>
        /\ ~mapOut.raised
        /\ IndexedInOrder(raw_trips, mapOut)

====
